---- MODULE Spec2Model ----
(***************************************************************************)
(* State-machine model of DisplayService (src/src/services/DisplayService  *)
(* .js): the content-slot reconciler updateContentSlotsForView, the option *)
(* reconciler setOptionsForContentSlot, and the view commands createView,  *)
(* updateView and deleteView; and of SocketController (src/unnamed/        *)
(* part_000).  Every `await` / `.then` boundary of the source is one step  *)
(* of the model, so that other promise chains can run in between.          *)
(* The repositories are not part of the source tree; they are modelled as  *)
(* a plain store without cascade and without transactions.                 *)
(***************************************************************************)
EXTENDS Integers, Sequences, FiniteSets, TLC

\* ------------------------------------------------------------------ bounds
\* the budget of a run: one unit per reconciliation call, two per view command
\* and per descriptor or option object submitted
MaxWork == 6        \* runs of the reconcilers called on their own
MaxViewWork == 7    \* runs of the view commands

\* ------------------------------------------------------------- value sets
Undefined == 0
ViewIds == {1, 2}
Keys == {"a", "b"}
Values == {1, 2}
EmptyMap == [k \in {} |-> 0]

\* componentType and grid placement of a descriptor, passed through opaquely
Body(type, c1, r1, c2, r2) ==
  [componentType |-> type, columnStart |-> c1, rowStart |-> r1, columnEnd |-> c2, rowEnd |-> r2]
ClockBody == Body("clock", 1, 1, 2, 2)
TextBody == Body("text", 1, 2, 3, 4)

\* an options object as submitted: its entries in iteration order
PairSeqs(n) == UNION { [1..m -> Keys \X Values] : m \in 0..n }
DistinctKeys(ps) == \A i, j \in 1..Len(ps) : i # j => ps[i][1] # ps[j][1]
OrderedMaps == { ps \in PairSeqs(Cardinality(Keys)) : DistinctKeys(ps) }

KeysOf(ps) == { ps[i][1] : i \in 1..Len(ps) }
ValueOf(ps, k) == ps[CHOOSE i \in 1..Len(ps) : ps[i][1] = k][2]
MapOf(ps) == [k \in KeysOf(ps) |-> ValueOf(ps, k)]

\* what a submitted descriptor carries besides its identity: a clock without
\* an options property, or a text with options b and a (in that order);
\* hasOptions = FALSE when the descriptor has no options property
Payloads ==
  { [body |-> ClockBody, hasOptions |-> FALSE, options |-> <<>>],
    [body |-> TextBody, hasOptions |-> TRUE, options |-> << <<"b", 1>>, <<"a", 2>> >>] }

\* the store before the first command: view 1 owns slot 1 (with option a),
\* view 2 owns slot 2
SlotRecord(viewId, body) == [viewId |-> viewId, body |-> body]
InitSlots == (1 :> SlotRecord(1, ClockBody)) @@ (2 :> SlotRecord(2, TextBody))
FirstFreeId == Cardinality(DOMAIN InitSlots) + 1
SlotIds == 1..(Cardinality(DOMAIN InitSlots) + MaxWork + MaxViewWork)

\* a slot descriptor of a desired list; id = Undefined for a new slot. The
\* identities submitted are those of the persisted slots and the first one
\* the slot table has yet to hand out.
Descriptors ==
  { [id |-> i, body |-> p.body, hasOptions |-> p.hasOptions, options |-> p.options] :
      i \in (1..FirstFreeId) \cup {Undefined}, p \in Payloads }
DesiredLists(n) == UNION { [1..m -> Descriptors] : m \in 0..n }

\* views: both on display 1, in the same screen-type group
ViewRecord(name, columns, rows, displayId, order, screenType) ==
  [name |-> name, columns |-> columns, rows |-> rows, displayId |-> displayId,
   order |-> order, screenType |-> screenType]
InitViews == (1 :> ViewRecord("A", 1, 1, 1, 1, "idle")) @@ (2 :> ViewRecord("B", 1, 1, 1, 2, "idle"))
NoView == ViewRecord("", 0, 0, 0, 0, "")

\* name, columns and rows as submitted to updateView
ViewInputs == { [name |-> "A", columns |-> 1, rows |-> 1], [name |-> "C", columns |-> 2, rows |-> 3] }

\* ------------------------------------------------------------------ state
VARIABLES
  slots,        \* content-slot table: slot id -> [viewId, body]
  options,      \* option table: slot id -> (key -> value)
  nextSlotId,   \* next identity the slot table hands out
  call,         \* the updateContentSlotsForView invocation in progress
  inv,          \* number of invocations started so far
  submitted,    \* number of descriptors and option objects submitted so far
  tasks,        \* setOptionsForContentSlot invocations in flight
  repoFailed,   \* history: invocations on whose behalf a repository call failed
  removedEver,  \* history: slots deleted by a removal loop
  optionWrites, \* history: invocations whose option reconciliations created or deleted an option
  prev,         \* history: the invocation before the current one
  lastDone,     \* history: the last setOptionsForContentSlot invocation that resolved
  views,        \* view table: view id -> view record
  nextViewId,   \* next identity the view table hands out
  cmd,          \* the updateView / deleteView command in progress
  cmds,         \* number of view commands started so far
  notes,        \* views_updated notification of each command: lookup, emitted, lookupFailed, emitThrew
  outcomes,     \* history: how each finished view command settled
  sockets,      \* SocketController.sockets: displayId -> socket
  pendingDisplayIds, \* SocketController.pendingDisplayIds
  conns         \* the sockets that connected: their displayId, the position of their
                \* onConnected handler, whether they disconnected

viewVars == <<views, nextViewId, cmd, cmds, notes, outcomes>>
socketVars == <<sockets, pendingDisplayIds, conns>>

\* what the run has spent of its budget, and the number of descriptors a
\* command may still bring after spending `units` itself
Work == cmds + cmds + inv + submitted + submitted
RoomIn(budget, units) ==
  IF Work + units <= budget THEN (budget - Work - units) \div 2 ELSE 0 - 1
Room(units) == RoomIn(MaxWork, units)
ViewRoom(units) == RoomIn(MaxViewWork, units)

serviceVars == <<slots, options, nextSlotId, call, inv, submitted, tasks, repoFailed,
          removedEver, optionWrites, prev, lastDone, views, nextViewId, cmd, cmds, notes,
          outcomes>>
vars == <<serviceVars, socketVars>>

\* ------------------------------------------------- repositories (the store)
RepoGetContentSlotsByViewId(tbl, viewId) == { s \in DOMAIN tbl : tbl[s].viewId = viewId }
RepoCreateContentSlot(tbl, id, viewId, body) == tbl @@ (id :> SlotRecord(viewId, body))
RepoUpdateContentSlot(tbl, id, viewId, body) == [tbl EXCEPT ![id] = SlotRecord(viewId, body)]
RepoDeleteContentSlot(tbl, id) == [s \in DOMAIN tbl \ {id} |-> tbl[s]]
RepoDeleteOptionsForContentSlot(opt, id) == [opt EXCEPT ![id] = EmptyMap]
RepoDeleteOption(opt, id, key) ==
  [opt EXCEPT ![id] = [k \in DOMAIN opt[id] \ {key} |-> opt[id][k]]]
RepoPutOption(opt, id, key, value) ==
  [opt EXCEPT ![id] = [k \in DOMAIN opt[id] \cup {key} |-> IF k = key THEN value ELSE opt[id][k]]]

\* ------------------------------------------- updateContentSlotsForView
IdleCall ==
  [pc |-> "idle", view |-> 1, desired |-> <<>>, removed |-> {}, cur |-> Undefined, i |-> 1,
   optionsDeleted |-> {}, slotsDeleted |-> {}, created |-> {}, updated |-> {},
   missing |-> FALSE, snapSlots |-> EmptyMap, snapOptions |-> EmptyMap]

\* what is remembered of the invocation before the current one, when it
\* resolved and the current one repeats its arguments
NoPrev == [valid |-> FALSE, snapSlots |-> EmptyMap, snapOptions |-> EmptyMap]

\* lines 197-199: the persisted slots of the view that the desired list does not name
SubmittedContentSlotIds(desired) ==
  { desired[i].id : i \in { j \in 1..Len(desired) : desired[j].id # Undefined } }
RemovedComponents(existing, desired) == existing \ SubmittedContentSlotIds(desired)

\* line 208
IsNewAlways(d) == TRUE
IsNew(d) == d.id = Undefined

\* lines 211, 218: contentSlot.options || {}
OptionsOrEmpty(d) == IF d.hasOptions THEN d.options ELSE <<>>

\* lines 203-204: what the removal loop deletes first and second
RemovalOrderSwapped == <<"slot", "options">>
RemovalOrder == <<"options", "slot">>

ViewSnapshotSlots(tbl, v) == [s \in RepoGetContentSlotsByViewId(tbl, v) |-> tbl[s]]
ViewSnapshotOptions(tbl, opt, v) == [s \in RepoGetContentSlotsByViewId(tbl, v) |-> opt[s]]

\* where the async body goes next; reaching the end of the desired list
\* returns Promise.resolve() in the same turn (line 224)
Continue(c, tbl, opt) ==
  IF c.removed # {} THEN [c EXCEPT !.pc = "remove"]
  ELSE IF c.i <= Len(c.desired)
       THEN [c EXCEPT !.pc = IF IsNew(c.desired[c.i]) THEN "create" ELSE "getSlot"]
       ELSE [c EXCEPT !.pc = "resolved",
                      !.snapSlots = ViewSnapshotSlots(tbl, c.view),
                      !.snapOptions = ViewSnapshotOptions(tbl, opt, c.view)]

CallOver == call.pc \in {"idle", "resolved", "rejected"}

IdleCmd ==
  [op |-> "none", pc |-> "idle", id |-> 1, input |-> [name |-> "", columns |-> 0, rows |-> 0],
   desired |-> <<>>, view |-> NoView, toRead |-> {}, contentSlots |-> EmptyMap,
   failedAt |-> "", lookedUp |-> FALSE]

CmdOver == cmd.pc \in {"idle", "resolved", "rejected"}

\* line 195: the call is made and the slot query issued
StartCall(viewId, newContentSlots) ==
  /\ inv' = inv + 1
  /\ submitted' = submitted + Len(newContentSlots)
  /\ prev' = IF call.pc = "resolved" /\ call.view = viewId /\ call.desired = newContentSlots
             THEN [valid |-> TRUE, snapSlots |-> call.snapSlots, snapOptions |-> call.snapOptions]
             ELSE NoPrev
  /\ call' = [IdleCall EXCEPT !.pc = "fetch", !.view = viewId, !.desired = newContentSlots]
  /\ UNCHANGED <<slots, options, nextSlotId, tasks, repoFailed, removedEver, optionWrites, lastDone>>

\* updateContentSlotsForView called on its own, after the command before it settled
UpdateContentSlotsForView(viewId, newContentSlots) ==
  /\ CallOver
  /\ CmdOver
  /\ Len(newContentSlots) <= Room(1)
  /\ StartCall(viewId, newContentSlots)
  /\ UNCHANGED viewVars
  /\ UNCHANGED socketVars

\* lines 196-199: the slot query answers
FetchExisting ==
  /\ call.pc = "fetch"
  /\ call' = Continue([call EXCEPT !.removed =
                         RemovedComponents(RepoGetContentSlotsByViewId(slots, call.view), call.desired)],
                      slots, options)
  /\ UNCHANGED <<slots, options, nextSlotId, inv, submitted, tasks, repoFailed, removedEver, optionWrites, prev, lastDone>>
  /\ UNCHANGED viewVars
  /\ UNCHANGED socketVars

DeleteOptionsOf(s) ==
  /\ options' = RepoDeleteOptionsForContentSlot(options, s)
  /\ UNCHANGED <<slots, removedEver>>

DeleteSlot(s) ==
  /\ slots' = RepoDeleteContentSlot(slots, s)
  /\ removedEver' = removedEver \cup {s}
  /\ UNCHANGED options

RemovalCall(what, s) == IF what = "options" THEN DeleteOptionsOf(s) ELSE DeleteSlot(s)

Noted(c, what, s) ==
  IF what = "options" THEN [c EXCEPT !.optionsDeleted = @ \cup {s}]
  ELSE [c EXCEPT !.slotsDeleted = @ \cup {s}]

\* lines 202-205: one awaited repository call of the removal loop
RemoveStep ==
  /\ call.pc = "remove"
  /\ IF call.cur = Undefined
     THEN \E s \in call.removed :
            /\ RemovalCall(RemovalOrder[1], s)
            /\ call' = Noted([call EXCEPT !.cur = s], RemovalOrder[1], s)
     ELSE /\ RemovalCall(RemovalOrder[2], call.cur)
          /\ call' = Continue(Noted([call EXCEPT !.cur = Undefined, !.removed = @ \ {call.cur}],
                                    RemovalOrder[2], call.cur),
                              slots', options')
  /\ UNCHANGED <<nextSlotId, inv, submitted, tasks, repoFailed, optionWrites, prev, lastDone>>
  /\ UNCHANGED viewVars
  /\ UNCHANGED socketVars

\* ------------------------------------------------ setOptionsForContentSlot
NoDone ==
  [valid |-> FALSE, slot |-> 1, desired |-> <<>>, result |-> EmptyMap, existing |-> {}, log |-> <<>>]

\* line 229: the call is made and the option query issued; log is the history
\* of the option writes the invocation has had answered
NewTask(slotId, opts) ==
  [slot |-> slotId, desired |-> opts, pc |-> "fetch", existing |-> {}, todo |-> {}, j |-> 1,
   log |-> <<>>]

\* line 238: the j-th entry of Object.entries(options)
EntryAtReversed(opts, j) == opts[Len(opts) + 1 - j]
EntryAt(opts, j) == opts[j]

\* where the async body of lines 230-246 goes next
TaskContinue(t) ==
  IF t.todo # {} THEN [t EXCEPT !.pc = "delete"]
  ELSE IF t.j <= Len(t.desired) THEN [t EXCEPT !.pc = "entries"]
  ELSE [t EXCEPT !.pc = "refetch"]

\* lines 232-233: the persisted keys the new options object does not own
KeysToDeleteNone(existing, opts) == {}
KeysToDelete(existing, opts) == { k \in existing : k \notin KeysOf(opts) }

\* lines 229-230: the option query answers
TaskFetch(id) ==
  /\ tasks[id].pc = "fetch"
  /\ LET keys == DOMAIN options[tasks[id].slot]
     IN tasks' = [tasks EXCEPT ![id] =
                    TaskContinue([@ EXCEPT !.existing = keys,
                                           !.todo = KeysToDelete(keys, tasks[id].desired)])]
  /\ UNCHANGED <<slots, options, nextSlotId, call, inv, submitted, repoFailed, removedEver,
                 optionWrites, prev, lastDone>>
  /\ UNCHANGED viewVars
  /\ UNCHANGED socketVars

\* line 234: one awaited deleteOption; the Map's key order is the store's
TaskDelete(id) ==
  /\ tasks[id].pc = "delete"
  /\ \E k \in tasks[id].todo :
       /\ options' = RepoDeleteOption(options, tasks[id].slot, k)
       /\ tasks' = [tasks EXCEPT ![id] = TaskContinue([@ EXCEPT !.todo = @ \ {k},
                                                               !.log = Append(@, <<"delete", k>>)])]
  /\ optionWrites' = optionWrites \cup {id[1]}
  /\ UNCHANGED <<slots, nextSlotId, call, inv, submitted, repoFailed, removedEver, prev, lastDone>>
  /\ UNCHANGED viewVars
  /\ UNCHANGED socketVars

\* lines 238-245: one awaited updateOption or createOption, in the object's order.
\* updateOption of a key that is gone and createOption of a key that is there
\* are refused by the store, and the invocation rejects.
TaskEntry(id) ==
  /\ tasks[id].pc = "entries"
  /\ LET t == tasks[id]
         key == EntryAt(t.desired, t.j)[1]
         value == EntryAt(t.desired, t.j)[2]
         present == key \in DOMAIN options[t.slot]
         update == key \in t.existing
     IN IF update = present
        THEN /\ options' = RepoPutOption(options, t.slot, key, value)
             /\ tasks' = [tasks EXCEPT ![id] =
                            TaskContinue([@ EXCEPT !.j = @ + 1,
                                                   !.log = Append(@, <<IF update THEN "update" ELSE "create", key>>)])]
             /\ optionWrites' = IF update THEN optionWrites ELSE optionWrites \cup {id[1]}
             /\ UNCHANGED repoFailed
        ELSE /\ tasks' = [x \in DOMAIN tasks \ {id} |-> tasks[x]]
             /\ repoFailed' = repoFailed \cup {id[1]}
             /\ UNCHANGED <<options, optionWrites>>
  /\ UNCHANGED <<slots, nextSlotId, call, inv, submitted, removedEver, prev, lastDone>>
  /\ UNCHANGED viewVars
  /\ UNCHANGED socketVars

\* line 247: the read-after-write answers and the invocation resolves with it
TaskRefetch(id, keep) ==
  /\ tasks[id].pc = "refetch"
  /\ tasks' = [x \in DOMAIN tasks \ {id} |-> tasks[x]]
  /\ lastDone' = IF keep
                 THEN [valid |-> TRUE, slot |-> tasks[id].slot, desired |-> tasks[id].desired,
                       result |-> options[tasks[id].slot], existing |-> tasks[id].existing,
                       log |-> tasks[id].log]
                 ELSE lastDone
  /\ UNCHANGED <<slots, options, nextSlotId, call, inv, submitted, repoFailed, removedEver,
                 optionWrites, prev>>
  /\ UNCHANGED viewVars
  /\ UNCHANGED socketVars

\* any repository call of the invocation fails: nothing catches it, the
\* promise returned by setOptionsForContentSlot rejects
TaskFails(id) ==
  /\ tasks' = [x \in DOMAIN tasks \ {id} |-> tasks[x]]
  /\ repoFailed' = repoFailed \cup {id[1]}
  /\ UNCHANGED <<slots, options, nextSlotId, call, inv, submitted, removedEver, optionWrites, prev, lastDone>>
  /\ UNCHANGED viewVars
  /\ UNCHANGED socketVars

\* ------------------------------- updateContentSlotsForView, desired loop
\* lines 210-212: createContentSlot answers; the option reconciliation is
\* started and not awaited
CreateSlotStep ==
  /\ call.pc = "create"
  /\ LET d == call.desired[call.i]
     IN /\ slots' = RepoCreateContentSlot(slots, nextSlotId, call.view, d.body)
        /\ tasks' = tasks @@ (<<inv, call.i>> :> NewTask(nextSlotId, OptionsOrEmpty(d)))
        /\ call' = Continue([call EXCEPT !.i = @ + 1, !.created = @ \cup {<<call.i, nextSlotId>>}],
                            slots', options)
  /\ nextSlotId' = nextSlotId + 1
  /\ UNCHANGED <<options, inv, submitted, repoFailed, removedEver, optionWrites, prev, lastDone>>
  /\ UNCHANGED viewVars
  /\ UNCHANGED socketVars

GetSlotStepSkipMissing ==
  /\ call.pc = "getSlot"
  /\ LET d == call.desired[call.i]
     IN IF d.id \in DOMAIN slots
        THEN call' = [call EXCEPT !.pc = "update", !.cur = d.id]
        ELSE call' = Continue([call EXCEPT !.i = @ + 1, !.missing = TRUE], slots, options)
  /\ UNCHANGED <<slots, options, nextSlotId, inv, submitted, tasks, repoFailed,
                 removedEver, optionWrites, prev, lastDone>>
  /\ UNCHANGED viewVars
  /\ UNCHANGED socketVars

\* line 216: getContentSlot answers, or rejects with NotFound
GetSlotStep ==
  /\ call.pc = "getSlot"
  /\ LET d == call.desired[call.i]
     IN IF d.id \in DOMAIN slots
        THEN /\ call' = [call EXCEPT !.pc = "update", !.cur = d.id]
             /\ UNCHANGED repoFailed
        ELSE /\ call' = [call EXCEPT !.pc = "rejected", !.missing = TRUE]
             /\ repoFailed' = repoFailed \cup {inv}
  /\ UNCHANGED <<slots, options, nextSlotId, inv, submitted, tasks, removedEver, optionWrites,
                 prev, lastDone>>
  /\ UNCHANGED viewVars
  /\ UNCHANGED socketVars

\* lines 217-218: updateContentSlot answers; the option reconciliation is
\* started and not awaited
UpdateSlotStep ==
  /\ call.pc = "update"
  /\ LET d == call.desired[call.i]
     IN /\ slots' = RepoUpdateContentSlot(slots, call.cur, call.view, d.body)
        /\ tasks' = tasks @@ (<<inv, call.i>> :> NewTask(call.cur, OptionsOrEmpty(d)))
        /\ call' = Continue([call EXCEPT !.i = @ + 1, !.cur = Undefined, !.updated = @ \cup {call.i}],
                            slots', options)
  /\ UNCHANGED <<options, nextSlotId, inv, submitted, repoFailed, removedEver, optionWrites,
                 prev, lastDone>>
  /\ UNCHANGED viewVars
  /\ UNCHANGED socketVars

\* lines 195, 220-222: an awaited repository call of the invocation fails
CallFails ==
  /\ call.pc \in {"fetch", "remove", "create", "getSlot", "update"}
  /\ call' = [call EXCEPT !.pc = "rejected"]
  /\ repoFailed' = repoFailed \cup {inv}
  /\ UNCHANGED <<slots, options, nextSlotId, inv, submitted, tasks, removedEver, optionWrites, prev, lastDone>>
  /\ UNCHANGED viewVars
  /\ UNCHANGED socketVars

\* line 228: setOptionsForContentSlot called on its own, with no other
\* invocation in flight
SetOptionsForContentSlot(contentSlotId, opts) ==
  /\ CallOver
  /\ CmdOver
  /\ tasks = EmptyMap
  /\ Room(1) >= 1
  /\ inv' = inv + 1
  /\ submitted' = submitted + 1
  /\ tasks' = (<<inv + 1, 1>> :> NewTask(contentSlotId, opts))
  /\ lastDone' = NoDone
  /\ UNCHANGED <<slots, options, nextSlotId, call, repoFailed, removedEver,
                 optionWrites, prev>>
  /\ UNCHANGED viewVars
  /\ UNCHANGED socketVars

\* ------------------------------------------------- view repository (store)
RepoUpdateView(tbl, id, name, columns, rows, displayId, order, screenType) ==
  [tbl EXCEPT ![id] = ViewRecord(name, columns, rows, displayId, order, screenType)]
RepoDeleteView(tbl, id) == [v \in DOMAIN tbl \ {id} |-> tbl[v]]

Settled(how) == outcomes' = outcomes @@ (cmds :> [op |-> cmd.op, how |-> how])

Rejected(at) ==
  /\ cmd' = [cmd EXCEPT !.pc = "rejected", !.failedAt = at]
  /\ Settled("rejected")

\* --------------------------------------------------------------- updateView
\* line 176: the command is issued and the view query sent
UpdateView(id, input, contentSlots) ==
  /\ CallOver
  /\ CmdOver
  /\ Len(contentSlots) <= ViewRoom(3)
  /\ cmds' = cmds + 1
  /\ cmd' = [IdleCmd EXCEPT !.op = "updateView", !.pc = "getViewById", !.id = id,
                            !.input = input, !.desired = contentSlots]
  /\ UNCHANGED socketVars
  /\ UNCHANGED <<slots, options, nextSlotId, call, inv, submitted, tasks, repoFailed,
                 removedEver, optionWrites, prev, lastDone, nextViewId, views, notes, outcomes>>

\* lines 176-177: getViewById answers (or rejects with NotFound) and the
\* update is sent with the view's own displayId, order and screenType
UpdateViewFetched ==
  /\ cmd.op = "updateView" /\ cmd.pc = "getViewById"
  /\ IF cmd.id \in DOMAIN views
     THEN /\ cmd' = [cmd EXCEPT !.pc = "updateView", !.view = views[cmd.id]]
          /\ UNCHANGED outcomes
     ELSE Rejected("getViewById")
  /\ UNCHANGED socketVars
  /\ UNCHANGED <<slots, options, nextSlotId, call, inv, submitted, tasks, repoFailed,
                 removedEver, optionWrites, prev, lastDone, nextViewId, views, cmds, notes>>

\* line 177: the displayId, order and screenType sent with the update are
\* those of the view as it was read
PlacementReset(view) == [displayId |-> view.displayId, order |-> 1, screenType |-> view.screenType]
Placement(view) == [displayId |-> view.displayId, order |-> view.order, screenType |-> view.screenType]

\* lines 177-178: the view update answers and the slot reconciliation starts
UpdateViewUpdated ==
  /\ cmd.op = "updateView" /\ cmd.pc = "updateView"
  /\ IF cmd.id \in DOMAIN views
     THEN /\ views' = RepoUpdateView(views, cmd.id, cmd.input.name, cmd.input.columns, cmd.input.rows,
                                     Placement(cmd.view).displayId, Placement(cmd.view).order,
                                     Placement(cmd.view).screenType)
          /\ cmd' = [cmd EXCEPT !.pc = "reconcile"]
          /\ StartCall(cmd.id, cmd.desired)
          /\ UNCHANGED outcomes
     ELSE /\ Rejected("updateView")
          /\ UNCHANGED <<slots, options, nextSlotId, call, inv, submitted, tasks,
                         repoFailed, removedEver, optionWrites, prev, lastDone, views>>
  /\ UNCHANGED <<cmds, notes, nextViewId>>
  /\ UNCHANGED socketVars

\* lines 178-180: the reconciliation settled; on success getView is called
UpdateViewReconciled ==
  /\ cmd.op = "updateView" /\ cmd.pc = "reconcile"
  /\ CallOver
  /\ IF call.pc = "resolved"
     THEN /\ cmd' = [cmd EXCEPT !.pc = "getView"]
          /\ UNCHANGED outcomes
     ELSE Rejected("reconcile")
  /\ UNCHANGED socketVars
  /\ UNCHANGED <<slots, options, nextSlotId, call, inv, submitted, tasks, repoFailed,
                 removedEver, optionWrites, prev, lastDone, nextViewId, views, cmds, notes>>

\* ------------------------------------------------------------------ getView
\* the end of getView inside each command: updateView launches the
\* notification without awaiting it and resolves with the view (lines
\* 181-189); deleteView goes on to look the display up (line 155)
GotView(c) ==
  IF c.op = "updateView"
  THEN /\ cmd' = [c EXCEPT !.pc = "resolved"]
       /\ notes' = notes @@ (cmds :> "lookup")
       /\ Settled("resolved")
  ELSE /\ cmd' = [c EXCEPT !.pc = "getDisplayById"]
       /\ UNCHANGED <<notes, outcomes>>

\* lines 129-131, 104: getViewById and getContentSlotsByViewId answer
GetViewFetched ==
  /\ cmd.pc = "getView"
  /\ IF cmd.id \in DOMAIN views
     THEN LET ids == RepoGetContentSlotsByViewId(slots, cmd.id)
              c == [cmd EXCEPT !.view = views[cmd.id], !.toRead = ids,
                               !.contentSlots = [s \in ids |-> [slot |-> slots[s], options |-> EmptyMap]]]
          IN IF ids = {} THEN GotView(c)
             ELSE cmd' = [c EXCEPT !.pc = "getOptions"] /\ UNCHANGED <<notes, outcomes>>
     ELSE Rejected("getView") /\ UNCHANGED notes
  /\ UNCHANGED socketVars
  /\ UNCHANGED <<slots, options, nextSlotId, call, inv, submitted, tasks, repoFailed,
                 removedEver, optionWrites, prev, lastDone, nextViewId, views, cmds>>

\* lines 107-118: getOptionsForContentSlot answers for the next slot
GetViewOptionsFetched ==
  /\ cmd.pc = "getOptions"
  /\ LET s == CHOOSE x \in cmd.toRead : \A y \in cmd.toRead : x <= y
         c == [cmd EXCEPT !.toRead = @ \ {s}, !.contentSlots[s].options = options[s]]
     IN IF c.toRead = {} THEN GotView(c)
        ELSE cmd' = c /\ UNCHANGED <<notes, outcomes>>
  /\ UNCHANGED socketVars
  /\ UNCHANGED <<slots, options, nextSlotId, call, inv, submitted, tasks, repoFailed,
                 removedEver, optionWrites, prev, lastDone, nextViewId, views, cmds>>

\* ------------------------------------------ updateView's notification chain
\* lines 182-183: getDisplayById answers and views_updated is emitted
NotifyEmitted(n) ==
  /\ notes[n] = "lookup"
  /\ notes' = [notes EXCEPT ![n] = "emitted"]
  /\ UNCHANGED socketVars
  /\ UNCHANGED <<slots, options, nextSlotId, call, inv, submitted, tasks, repoFailed,
                 removedEver, optionWrites, prev, lastDone, nextViewId, views, cmd, cmds, outcomes>>

NotifyFailedPropagates(n, byLookup) ==
  /\ notes[n] = "lookup"
  /\ notes' = [notes EXCEPT ![n] = IF byLookup THEN "lookupFailed" ELSE "emitThrew"]
  /\ outcomes' = [outcomes EXCEPT ![n].how = "rejected"]
  /\ UNCHANGED socketVars
  /\ UNCHANGED <<slots, options, nextSlotId, call, inv, submitted, tasks, repoFailed,
                 removedEver, optionWrites, prev, lastDone, nextViewId, views, cmd, cmds>>

\* lines 182-187: getDisplayById rejects (byLookup) or a views_updated
\* listener throws; the catch logs the error
NotifyFailed(n, byLookup) ==
  /\ notes[n] = "lookup"
  /\ notes' = [notes EXCEPT ![n] = IF byLookup THEN "lookupFailed" ELSE "emitThrew"]
  /\ UNCHANGED socketVars
  /\ UNCHANGED <<slots, options, nextSlotId, call, inv, submitted, tasks, repoFailed,
                 removedEver, optionWrites, prev, lastDone, nextViewId, views, cmd, cmds, outcomes>>

\* --------------------------------------------------------------- createView
RepoGetViewsByDisplayIdAndScreenType(tbl, displayId, screenType) ==
  { v \in DOMAIN tbl : tbl[v].displayId = displayId /\ tbl[v].screenType = screenType }
RepoCreateView(tbl, id, record) == tbl @@ (id :> record)

\* the groups views are created in: that of the two persisted views and an
\* empty one
Groups == { [displayId |-> 1, screenType |-> "idle"], [displayId |-> 1, screenType |-> "alarm"] }

\* line 79: views.length + 1
Position(existing) == Cardinality(existing) + 1

\* line 77: the command is issued and the views of the group are queried
CreateView(name, columns, rows, displayId, screenType) ==
  /\ CallOver
  /\ CmdOver
  /\ ViewRoom(2) >= 0
  /\ cmds' = cmds + 1
  /\ cmd' = [IdleCmd EXCEPT !.op = "createView", !.pc = "getViews", !.id = Undefined,
                            !.view = ViewRecord(name, columns, rows, displayId, Undefined, screenType)]
  /\ UNCHANGED socketVars
  /\ UNCHANGED <<slots, options, nextSlotId, call, inv, submitted, tasks, repoFailed,
                 removedEver, optionWrites, prev, lastDone, nextViewId, views, notes, outcomes>>

\* lines 78-79: the query answers and the creation is sent
CreateViewCounted ==
  /\ cmd.op = "createView" /\ cmd.pc = "getViews"
  /\ cmd' = [cmd EXCEPT !.pc = "createView",
                        !.view.order = Position(RepoGetViewsByDisplayIdAndScreenType(
                                                  views, cmd.view.displayId, cmd.view.screenType))]
  /\ UNCHANGED socketVars
  /\ UNCHANGED <<slots, options, nextSlotId, call, inv, submitted, tasks, repoFailed,
                 removedEver, optionWrites, prev, lastDone, nextViewId, views, cmds, notes, outcomes>>

\* line 79: the creation answers and createView resolves
CreateViewCreated ==
  /\ cmd.op = "createView" /\ cmd.pc = "createView"
  /\ views' = RepoCreateView(views, nextViewId, cmd.view)
  /\ nextViewId' = nextViewId + 1
  /\ cmd' = [cmd EXCEPT !.pc = "resolved", !.id = nextViewId]
  /\ Settled("resolved")
  /\ UNCHANGED socketVars
  /\ UNCHANGED <<slots, options, nextSlotId, call, inv, submitted, tasks, repoFailed,
                 removedEver, optionWrites, prev, lastDone, cmds, notes>>

\* --------------------------------------------------------------- deleteView
\* line 154: the command is issued and getView called
DeleteView(viewId) ==
  /\ CallOver
  /\ CmdOver
  /\ ViewRoom(2) >= 0
  /\ cmds' = cmds + 1
  /\ cmd' = [IdleCmd EXCEPT !.op = "deleteView", !.pc = "getView", !.id = viewId]
  /\ UNCHANGED socketVars
  /\ UNCHANGED <<slots, options, nextSlotId, call, inv, submitted, tasks, repoFailed,
                 removedEver, optionWrites, prev, lastDone, nextViewId, views, notes, outcomes>>

\* lines 155-157: getDisplayById answers and the view's deletion is sent
DeleteViewLookedUp ==
  /\ cmd.op = "deleteView" /\ cmd.pc = "getDisplayById"
  /\ cmd' = [cmd EXCEPT !.pc = "deleteView", !.lookedUp = TRUE]
  /\ UNCHANGED socketVars
  /\ UNCHANGED <<slots, options, nextSlotId, call, inv, submitted, tasks, repoFailed,
                 removedEver, optionWrites, prev, lastDone, nextViewId, views, cmds, notes, outcomes>>

\* lines 157-162: the deletion answers and views_updated is emitted; a
\* listener that throws is caught and logged
DeleteViewDeleted(emitThrows) ==
  /\ cmd.op = "deleteView" /\ cmd.pc = "deleteView"
  /\ views' = RepoDeleteView(views, cmd.id)
  /\ notes' = notes @@ (cmds :> IF emitThrows THEN "emitThrew" ELSE "emitted")
  /\ cmd' = [cmd EXCEPT !.pc = "resolved", !.failedAt = IF emitThrows THEN "emit" ELSE ""]
  /\ Settled("resolved")
  /\ UNCHANGED socketVars
  /\ UNCHANGED <<slots, options, nextSlotId, call, inv, submitted, tasks, repoFailed,
                 removedEver, optionWrites, prev, lastDone, nextViewId, cmds>>

\* a repository call awaited by the command fails: the command rejects,
\* except that the catch of lines 159-162 also takes a failed view deletion
CmdFails ==
  /\ cmd.pc \in {"getViewById", "updateView", "getView", "getOptions", "getDisplayById", "deleteView",
                 "getViews", "createView"}
  /\ IF cmd.pc = "deleteView"
     THEN /\ cmd' = [cmd EXCEPT !.pc = "resolved", !.failedAt = "deleteView"]
          /\ Settled("resolved")
     ELSE Rejected(cmd.pc)
  /\ UNCHANGED socketVars
  /\ UNCHANGED <<slots, options, nextSlotId, call, inv, submitted, tasks, repoFailed,
                 removedEver, optionWrites, prev, lastDone, nextViewId, views, cmds, notes>>

\* ---------------------------------------------------------------------------
\* SocketController (src/unnamed/part_000): the presence of the displays'
\* sockets.  onConnected is async: the lookup of the display is one step, and
\* a disconnect may come before it answers.
MaxSockets == 3     \* sockets that connect
SocketIds == 1..MaxSockets
DisplayIds == {"d1", "d2"}

\* Map.set and Map.delete
MapSet(m, k, v) == [x \in DOMAIN m \cup {k} |-> IF x = k THEN v ELSE m[x]]
MapDelete(m, k) == [x \in DOMAIN m \ {k} |-> m[x]]

\* lines 16-23: a socket connects with a displayId in its handshake; the
\* disconnect handler is registered and findDisplay is called. Sockets are
\* numbered in the order they connect.
OnConnected(socket, displayId) ==
  /\ socket \notin DOMAIN conns
  /\ \A s \in SocketIds : s < socket => s \in DOMAIN conns
  /\ conns' = conns @@ (socket :> [displayId |-> displayId, pc |-> "findDisplay",
                                   disconnected |-> FALSE, addedPending |-> FALSE])
  /\ UNCHANGED <<sockets, pendingDisplayIds, serviceVars>>

\* lines 23-34: findDisplay answers; the socket is registered under its
\* displayId, as pending when the display is unknown or not active
FindDisplayAnswered(socket, active) ==
  /\ socket \in DOMAIN conns
  /\ conns[socket].pc = "findDisplay"
  /\ sockets' = MapSet(sockets, conns[socket].displayId, socket)
  /\ pendingDisplayIds' = IF active THEN pendingDisplayIds
                          ELSE pendingDisplayIds \cup {conns[socket].displayId}
  /\ conns' = [conns EXCEPT ![socket].pc = "done", ![socket].addedPending = ~active]
  /\ UNCHANGED serviceVars

\* line 23: findDisplay rejects and so does onConnected; nothing is registered
FindDisplayRejected(socket) ==
  /\ socket \in DOMAIN conns
  /\ conns[socket].pc = "findDisplay"
  /\ conns' = [conns EXCEPT ![socket].pc = "done"]
  /\ UNCHANGED <<sockets, pendingDisplayIds, serviceVars>>

OnDisconnectKeepsPending(socket) ==
  /\ socket \in DOMAIN conns
  /\ ~conns[socket].disconnected
  /\ sockets' = MapDelete(sockets, conns[socket].displayId)
  /\ conns' = [conns EXCEPT ![socket].disconnected = TRUE]
  /\ UNCHANGED <<pendingDisplayIds, serviceVars>>

\* lines 37-42: the socket disconnects (the handler was registered with once)
OnDisconnect(socket) ==
  /\ socket \in DOMAIN conns
  /\ ~conns[socket].disconnected
  /\ sockets' = MapDelete(sockets, conns[socket].displayId)
  /\ pendingDisplayIds' = pendingDisplayIds \ {conns[socket].displayId}
  /\ conns' = [conns EXCEPT ![socket].disconnected = TRUE]
  /\ UNCHANGED serviceVars

\* line 51
IsDisplayPending(displayId) == displayId \in pendingDisplayIds

\* --------------------------------------------------------- specification
Init ==
  /\ slots = InitSlots
  /\ options = [s \in SlotIds |-> IF s = 1 THEN MapOf(<< <<"a", 1>> >>) ELSE EmptyMap]
  /\ nextSlotId = FirstFreeId
  /\ call = IdleCall
  /\ inv = 0
  /\ submitted = 0
  /\ tasks = EmptyMap
  /\ repoFailed = {}
  /\ removedEver = {}
  /\ optionWrites = {}
  /\ prev = NoPrev
  /\ lastDone = NoDone
  /\ views = InitViews
  /\ nextViewId = Cardinality(DOMAIN InitViews) + 1
  /\ cmd = IdleCmd
  /\ cmds = 0
  /\ notes = EmptyMap
  /\ outcomes = EmptyMap
  /\ sockets = EmptyMap
  /\ pendingDisplayIds = {}
  /\ conns = EmptyMap

Next ==
  \/ \E v \in ViewIds, l \in DesiredLists(Room(1)) :
       UpdateContentSlotsForView(v, l)
  \/ FetchExisting
  \/ RemoveStep
  \/ CreateSlotStep
  \/ GetSlotStep
  \/ UpdateSlotStep
  \/ CallFails
  \/ \E id \in DOMAIN tasks : TaskFetch(id)
  \/ \E id \in DOMAIN tasks : TaskDelete(id)
  \/ \E id \in DOMAIN tasks : TaskEntry(id)
  \/ \E id \in DOMAIN tasks : TaskRefetch(id, FALSE)
  \/ \E id \in DOMAIN tasks : TaskFails(id)

Spec == Init /\ [][Next]_vars

\* the keys a persisted map may hold: those of the options objects and one
\* that no options object names
StoredKeys == Keys \cup {"c"}

\* the reconciler of option sets on its own: any persisted maps, then
\* setOptionsForContentSlot invocations one at a time
AllMaps == UNION { [K -> Values] : K \in SUBSET StoredKeys }

InitOptions ==
  /\ slots = InitSlots
  /\ options \in { [s \in SlotIds |-> IF s \in DOMAIN InitSlots THEN f[s] ELSE EmptyMap] :
                     f \in [DOMAIN InitSlots -> AllMaps] }
  /\ nextSlotId = FirstFreeId
  /\ call = IdleCall
  /\ inv = 0
  /\ submitted = 0
  /\ tasks = EmptyMap
  /\ repoFailed = {}
  /\ removedEver = {}
  /\ optionWrites = {}
  /\ prev = NoPrev
  /\ lastDone = NoDone
  /\ views = InitViews
  /\ nextViewId = Cardinality(DOMAIN InitViews) + 1
  /\ cmd = IdleCmd
  /\ cmds = 0
  /\ notes = EmptyMap
  /\ outcomes = EmptyMap
  /\ sockets = EmptyMap
  /\ pendingDisplayIds = {}
  /\ conns = EmptyMap

NextOptions ==
  \/ \E s \in DOMAIN slots, o \in OrderedMaps : SetOptionsForContentSlot(s, o)
  \/ \E id \in DOMAIN tasks : TaskFetch(id)
  \/ \E id \in DOMAIN tasks : TaskDelete(id)
  \/ \E id \in DOMAIN tasks : TaskEntry(id)
  \/ \E id \in DOMAIN tasks : TaskRefetch(id, TRUE)
  \/ \E id \in DOMAIN tasks : TaskFails(id)

SpecOptions == InitOptions /\ [][NextOptions]_vars

\* the view commands, each with every step of the reconciliation it runs
NextViews ==
  \/ \E v \in ViewIds, i \in ViewInputs, l \in DesiredLists(ViewRoom(3)) :
       UpdateView(v, i, l)
  \/ UpdateViewFetched
  \/ UpdateViewUpdated
  \/ UpdateViewReconciled
  \/ GetViewFetched
  \/ GetViewOptionsFetched
  \/ \E n \in DOMAIN notes : NotifyEmitted(n)
  \/ \E n \in DOMAIN notes, byLookup \in BOOLEAN : NotifyFailed(n, byLookup)
  \/ \E g \in Groups : CreateView("N", 1, 1, g.displayId, g.screenType)
  \/ CreateViewCounted
  \/ CreateViewCreated
  \/ \E v \in ViewIds \cup DOMAIN views : DeleteView(v)
  \/ DeleteViewLookedUp
  \/ \E emitThrows \in BOOLEAN : DeleteViewDeleted(emitThrows)
  \/ CmdFails
  \/ FetchExisting
  \/ RemoveStep
  \/ CreateSlotStep
  \/ GetSlotStep
  \/ UpdateSlotStep
  \/ CallFails
  \/ \E id \in DOMAIN tasks : TaskFetch(id)
  \/ \E id \in DOMAIN tasks : TaskDelete(id)
  \/ \E id \in DOMAIN tasks : TaskEntry(id)
  \/ \E id \in DOMAIN tasks : TaskRefetch(id, FALSE)
  \/ \E id \in DOMAIN tasks : TaskFails(id)

SpecViews == Init /\ [][NextViews]_vars

\* the socket controller: connections, lookups and disconnects in any order
NextSockets ==
  \/ \E s \in SocketIds, d \in DisplayIds : OnConnected(s, d)
  \/ \E s \in SocketIds, active \in BOOLEAN : FindDisplayAnswered(s, active)
  \/ \E s \in SocketIds : FindDisplayRejected(s)
  \/ \E s \in SocketIds : OnDisconnect(s)

SpecSockets == Init /\ [][NextSockets]_vars

\* ------------------------------------------------------------------ claims
Injective(f) == \A x, y \in DOMAIN f : x # y => f[x] # f[y]

\* the persisted slots (ss) and their option maps (so) are exactly the
\* descriptors of the desired list, one slot per descriptor
MatchesDesired(ss, so, desired) ==
  /\ Cardinality(DOMAIN ss) = Len(desired)
  /\ \E f \in [1..Len(desired) -> DOMAIN ss] :
       /\ Injective(f)
       /\ \A i \in 1..Len(desired) :
            /\ ss[f[i]].body = desired[i].body
            /\ so[f[i]] = MapOf(OptionsOrEmpty(desired[i]))

\* C1 (completeness): whenever updateContentSlotsForView resolves, the slots
\* persisted for the view at that moment, with their option maps, are exactly
\* the descriptors of the desired list.
C1_Completeness ==
  call.pc = "resolved" => MatchesDesired(call.snapSlots, call.snapOptions, call.desired)

\* C2 (option-map equality): when a setOptionsForContentSlot invocation
\* resolves, the persisted option map of the slot equals the desired map key
\* for key and value for value, and the resolved value is that persisted map.
C2_OptionMapEquality ==
  lastDone.valid =>
    /\ options[lastDone.slot] = MapOf(lastDone.desired)
    /\ lastDone.result = options[lastDone.slot]

C2_Witness ==
  /\ lastDone.valid
  /\ lastDone.result = MapOf(<< <<"b", 2>>, <<"a", 1>> >>)
  /\ inv \in optionWrites

\* C3 (ordering safety): within an invocation a slot is deleted only after
\* the options of that slot have been deleted.
C3_OptionsBeforeSlot == call.slotsDeleted \subseteq call.optionsDeleted

C3_Witness == call.slotsDeleted # {} /\ call.pc = "resolved"

\* C4 (ownership cascade): once a slot has been deleted because a desired
\* list did not name it, the store holds no option of that slot.
C4_NoOrphanOptions == \A s \in removedEver : options[s] = EmptyMap

AllIdentified(desired) == \A i \in 1..Len(desired) : desired[i].id # Undefined

C6_FailurePropagates == call.pc = "resolved" => inv \notin repoFailed

\* the last descriptor before position k that wrote slot id in this invocation
Writers(c, id, k) ==
  { j \in 1..(k - 1) : <<j, id>> \in c.created \/ (j \in c.updated /\ c.desired[j].id = id) }
LastWriter(c, id, k) == CHOOSE j \in Writers(c, id, k) : \A x \in Writers(c, id, k) : x <= j

\* C7 (not found, no rollback): when a descriptor names an identity that is
\* not in the store, the call rejects, nothing is created or updated for that
\* descriptor or a later one, and what the call deleted, created and updated
\* before stays persisted.
C7_NotFoundNoRollback ==
  call.missing =>
    /\ call.pc = "rejected"
    /\ call.desired[call.i].id \notin DOMAIN slots
    /\ \A w \in call.created : w[1] < call.i
    /\ \A j \in call.updated : j < call.i
    /\ call.slotsDeleted \cap DOMAIN slots = {}
    /\ \A id \in { w[2] : w \in call.created } \cup { call.desired[j].id : j \in call.updated } :
         /\ id \in DOMAIN slots
         /\ slots[id] = SlotRecord(call.view, call.desired[LastWriter(call, id, call.i)].body)

C7_Witness ==
  /\ call.missing
  /\ call.slotsDeleted # {}
  /\ call.updated # {}

\* C8 (no re-parenting): no step changes the owning view of a persisted slot.
C8_NoReparenting ==
  [][\A s \in DOMAIN slots \cap DOMAIN slots' : slots'[s].viewId = slots[s].viewId]_vars

\* C9 (updateView notification is fire-and-forget): an updateView whose
\* notification failed (display lookup rejected, or a listener threw) has
\* resolved, and updateView resolves with the view record as updated.
C9_FireAndForget ==
  /\ \A n \in DOMAIN notes :
       (notes[n] \in {"lookupFailed", "emitThrew"} /\ outcomes[n].op = "updateView") =>
         outcomes[n].how = "resolved"
  /\ (cmd.op = "updateView" /\ cmd.pc = "resolved") =>
       /\ cmd.view = views[cmd.id]
       /\ cmd.view.name = cmd.input.name
       /\ cmd.view.columns = cmd.input.columns
       /\ cmd.view.rows = cmd.input.rows

C9_Witness ==
  /\ cmd.op = "updateView" /\ cmd.pc = "resolved" /\ cmd.input.name = "C"
  /\ notes[cmds] = "lookupFailed"

\* C10 (deleteView notification is best-effort): deleteView looks the display
\* up only after the view is deleted, and when the display lookup or the
\* emission fails the view is deleted and deleteView resolves.
C10_DeleteViewBestEffort ==
  cmd.op = "deleteView" =>
    /\ cmd.lookedUp => cmd.id \notin DOMAIN views
    /\ cmd.failedAt \in {"getDisplayById", "emit"} =>
         (cmd.pc = "resolved" /\ cmd.id \notin DOMAIN views)

\* C11 (deleteView reports storage failures): when the repository's deleteView
\* fails, deleteView rejects and emits no views_updated, and deleteView never
\* resolves while the view is still persisted.
C11_DeleteFailureRejects ==
  cmd.op = "deleteView" =>
    /\ cmd.failedAt = "deleteView" => (cmd.pc = "rejected" /\ cmds \notin DOMAIN notes)
    /\ cmd.pc = "resolved" => cmd.id \notin DOMAIN views

\* C12 (updateView never moves a view): no step changes the displayId, the
\* order or the screenType of a persisted view; updateView changes only name,
\* columns, rows and the slots.
C12_NeverMoves ==
  [][\A v \in DOMAIN views \cap DOMAIN views' :
       /\ views'[v].displayId = views[v].displayId
       /\ views'[v].order = views[v].order
       /\ views'[v].screenType = views[v].screenType]_vars

C12_Witness ==
  /\ cmd.op = "updateView" /\ cmd.pc = "resolved" /\ cmd.id = 2
  /\ views[2].name = "C" /\ views[2].columns = 2 /\ views[2].rows = 3
  /\ call.created # {}

\* C13 (createView appends at the end of the group): when createView has
\* resolved, the position of the new view is the number of the other views of
\* its group plus one, and greater than the position of each of them.
C13_AppendsAtEnd ==
  (cmd.op = "createView" /\ cmd.pc = "resolved") =>
    LET others == RepoGetViewsByDisplayIdAndScreenType(
                    views, views[cmd.id].displayId, views[cmd.id].screenType) \ {cmd.id}
    IN /\ views[cmd.id].order = Cardinality(others) + 1
       /\ \A w \in others : views[w].order < views[cmd.id].order

\* C14 (view ownership cascade): once deleteView has deleted a view and
\* resolved, no persisted slot is owned by that view and no option is persisted
\* for a slot the view owned.
C14_ViewCascade ==
  (cmd.op = "deleteView" /\ cmd.pc = "resolved" /\ cmd.id \notin DOMAIN views) =>
    /\ RepoGetContentSlotsByViewId(slots, cmd.id) = {}
    /\ \A s \in DOMAIN cmd.contentSlots : options[s] = EmptyMap

\* the option reconciliations the current invocation started that still have
\* a repository call in flight, and whether the invocation's own loop has one
OwnTasks == { id \in DOMAIN tasks : id[1] = inv }
LoopCallInFlight == call.pc \in {"fetch", "remove", "create", "getSlot", "update"}

\* C15 (strictly sequential descriptors): while a repository call of the loop
\* is in flight for the descriptor at some index, no option call of a
\* descriptor at an earlier index is still in flight, and the invocation has
\* at most one repository call in flight at any time.
C15_StrictlySequential ==
  /\ LoopCallInFlight => \A id \in OwnTasks : id[2] >= call.i
  /\ Cardinality(OwnTasks) + (IF LoopCallInFlight THEN 1 ELSE 0) <= 1

\* C16 (option keys stay a set): no createOption call is pending at the store
\* for a key the slot already has persisted; the store itself keeps one
\* option per slot and key.
C16_KeysStayASet ==
  \A id \in DOMAIN tasks :
    tasks[id].pc = "entries" =>
      LET t == tasks[id]
          key == EntryAt(t.desired, t.j)[1]
      IN key \notin t.existing => key \notin DOMAIN options[t.slot]

\* the keys for which a log holds a write of the given kind
KeysWritten(log, op) == { log[i][2] : i \in { j \in 1..Len(log) : log[j][1] = op } }

\* C17 (minimal option diff): an invocation of setOptionsForContentSlot that
\* ran alone and resolved has deleted exactly the persisted keys the desired
\* map lacks, updated exactly the keys in both and created exactly the desired
\* keys that were not persisted, each key once, all deletes first and the
\* updates and creates in the iteration order of the desired map.
C17_MinimalDiff ==
  lastDone.valid =>
    LET log == lastDone.log
        des == lastDone.desired
        deletes == Cardinality(KeysWritten(log, "delete"))
    IN /\ KeysWritten(log, "delete") = lastDone.existing \ KeysOf(des)
       /\ KeysWritten(log, "update") = lastDone.existing \cap KeysOf(des)
       /\ KeysWritten(log, "create") = KeysOf(des) \ lastDone.existing
       /\ \A i, j \in 1..Len(log) : i # j => log[i][2] # log[j][2]
       /\ \A i \in 1..Len(log) : log[i][1] = "delete" <=> i <= deletes
       /\ Len(log) = deletes + Len(des)
       /\ \A j \in 1..Len(des) : log[deletes + j][2] = des[j][1]

C17_Witness ==
  /\ lastDone.valid
  /\ lastDone.log = << <<"delete", "c">>, <<"create", "b">>, <<"update", "a">> >>

\* C18 (no stale presence entry): once a socket has disconnected and its
\* onConnected handler has finished, the sockets map holds no entry for that
\* socket, and pendingDisplayIds does not hold its display id on its account.
C18_NoStalePresence ==
  \A s \in DOMAIN conns :
    (conns[s].disconnected /\ conns[s].pc = "done") =>
      /\ \A d \in DOMAIN sockets : sockets[d] # s
      /\ (conns[s].addedPending /\ conns[s].displayId \in pendingDisplayIds) =>
           \E o \in DOMAIN conns \ {s} :
             /\ conns[o].displayId = conns[s].displayId
             /\ conns[o].addedPending
             /\ ~conns[o].disconnected

\* C19 (disconnect only removes its own presence): a step in which a socket
\* disconnects leaves the entry, and the pending flag, of every socket that is
\* still connected.
C19_DisconnectOwnOnly ==
  [][(\E s \in DOMAIN conns : conns'[s].disconnected /\ ~conns[s].disconnected) =>
       \A d \in DOMAIN sockets :
         ~conns'[sockets[d]].disconnected =>
           /\ d \in DOMAIN sockets'
           /\ sockets'[d] = sockets[d]
           /\ (conns[sockets[d]].addedPending /\ d \in pendingDisplayIds) =>
                d \in pendingDisplayIds']_vars

\* C20 (pending implies present): every display id in pendingDisplayIds is a
\* key of the sockets map, so isDisplayPending is true only for a display id
\* that has a registered socket.
C20_PendingImpliesPresent ==
  \A d \in DisplayIds : IsDisplayPending(d) => d \in DOMAIN sockets

C20_Witness ==
  /\ IsDisplayPending("d1")
  /\ \E s \in DOMAIN conns : conns[s].displayId = "d1" /\ conns[s].disconnected
  /\ \E s \in DOMAIN conns : conns[s].displayId = "d2" /\ conns[s].disconnected /\ conns[s].addedPending

====
